---- MODULE Spec2Model ----
(***************************************************************************)
(* Stream scheduler of src/services/schedulerService.js: the termination   *)
(* registry (scheduledTerminations), the duration watchdog                 *)
(* (checkStreamDurations), the schedule poller (checkScheduledStreams) and *)
(* init.  Time is counted in whole minutes: the code's "* 60 * 1000" and   *)
(* "/ 60000" are exact unit changes at that resolution.  Every await of    *)
(* the code is a suspension point and splits its function into steps.      *)
(***************************************************************************)
EXTENDS Integers, Sequences, FiniteSets, TLC

\* ------------------------------------------------------------ bounds
MaxTime == 1      \* the clock runs over 0..MaxTime
MaxTimers == 2    \* timeouts that exist at once

\* SCHEDULE_LOOKAHEAD_SECONDS (60 s), in minutes
LookaheadMinutes == 1

Streams == {"a", "b"}

\* One invocation of each tick function is in flight at a time.
WdSlots == {"wd1"}
PlSlots == {"pl1"}
NoStream == "-"

\* The engine objects init may be handed; null is NoEngine.  Engines are
\* interchangeable: the one the application hands over first is FirstEngine.
Engines == {"e1", "e2"}
FirstEngine == "e1"
NoEngine == "none"

\* What a caller may hand to init at the start: an engine, or nothing.
EngineInputs == {FirstEngine, NoEngine}
NoTime == -1

\* ------------------------------------------------- JavaScript values
\* A JavaScript value as the scheduler sees it: a finite number, NaN,
\* Infinity, a non-numeric string, or null.
Num(n) == [kind |-> "num", v |-> n]
NaN == [kind |-> "nan", v |-> 0]
Infinity == [kind |-> "inf", v |-> 0]
Str == [kind |-> "str", v |-> 0]
Null == [kind |-> "null", v |-> 0]

\* Truthiness, as in `stream.duration && ...`: null, NaN and 0 are falsy.
Truthy(x) ==
  CASE x.kind = "null" -> FALSE
    [] x.kind = "nan" -> FALSE
    [] x.kind = "num" -> x.v # 0
    [] OTHER -> TRUE

\* typeof x === 'number'
TypeofNumber(x) == x.kind \in {"num", "nan", "inf"}

\* Number.isNaN(x)
IsNaN(x) == x.kind = "nan"

\* Math.max(0, x) for a value of type number that is not NaN.
MathMax0(x) == IF x.kind = "num" /\ x.v < 0 THEN Num(0) ELSE x

\* x * 60 * 1000 (a non-numeric string multiplies to NaN), in minutes.
TimesMinute(x) ==
  CASE x.kind = "num" -> x
    [] x.kind = "inf" -> Infinity
    [] x.kind = "null" -> Num(0)
    [] OTHER -> NaN

\* ------------------------------------------------------------- state
VARIABLES
  now,                    \* the wall clock (new Date()), in minutes
  streamingService,       \* the stored engine reference (line 4)
  initialized,            \* line 5
  scheduleIntervalId,     \* number of setInterval(checkScheduledStreams) made
  durationIntervalId,     \* number of setInterval(checkStreamDurations) made
  repo,                   \* the streams table, as Stream's queries expose it
  scheduledTerminations,  \* line 2: stream id -> timeout handle (0: no entry)
  timers,                 \* every setTimeout made, by handle
  wd,                     \* checkStreamDurations invocations, by slot
  pl,                     \* checkScheduledStreams invocations, by slot
  last                    \* the last call made through the module's exports

vars == <<now, streamingService, initialized, scheduleIntervalId,
          durationIntervalId, repo, scheduledTerminations, timers, wd, pl,
          last>>

\* Values a caller may pass as durationMinutes.
DelayInputs == {Str, NaN, Infinity, Num(-1), Num(0), Num(1)}

\* Values the duration column may hold for a live stream.
Durations == {Null, Str, Num(1)}

\* The start_time and duration a stream may go live with at time t.  A row
\* may lack its start_time.
LiveRows(t) == {<<t, d>> : d \in Durations} \cup {<<NoTime, Num(1)>>}

Outcomes == {"ok", "fail", "throw"}

NoCall == [op |-> "none", id |-> NoStream, arg |-> Null, ret |-> FALSE]

\* --------------------------------------------------------- registry
\* scheduledTerminations.has(id)
Has(reg, id) == reg[id] # 0

Handles == 1..MaxTimers

\* No timeout object behind this handle.
Free == [id |-> NoStream, due |-> 0, st |-> "free"]

FreeHandles(ts) == {h \in Handles : ts[h].st = "free"}

\* The timers of stream id that are armed: not fired, not cancelled.
Pending(ts, id) == {h \in Handles : ts[h].id = id /\ ts[h].st = "pending"}

\* A bug clearTimeout could have: a callback that is already running is
\* aborted with its timer.
ClearTimeoutAbortingCallback(ts, h) ==
  IF ts[h].st \in {"pending", "firing"}
  THEN [ts EXCEPT ![h].st = "cancelled"] ELSE ts

\* clearTimeout(handle): cancels a timer that has not fired; otherwise nothing.
ClearTimeout(ts, h) ==
  IF ts[h].st = "pending" THEN [ts EXCEPT ![h].st = "cancelled"] ELSE ts

\* A timeout object that can no longer act (cancelled, or its callback has
\* returned) and that the registry no longer holds is garbage: nothing can
\* tell it from a new one, and its handle is free again.
Collect(reg, ts) ==
  [h \in Handles |->
     IF ts[h].st \in {"cancelled", "done"} /\ \A id \in Streams : reg[id] # h
     THEN Free ELSE ts[h]]

\* The delay setTimeout waits for durationMs: Node replaces a delay that is
\* above 2^31-1 ms (35791 whole minutes; Infinity too), below 1 or NaN by
\* 1 ms, which is no minute at all.
SetTimeoutDelay(ms) ==
  IF ms.kind = "num" /\ ms.v >= 0 /\ ms.v <= 35791 THEN ms.v ELSE 0

\* A bug the checks of lines 77-80 could have: a delay that is not positive
\* is turned away with the invalid ones.
AcceptedPositiveOnly(durationMinutes) ==
  /\ ~(~TypeofNumber(durationMinutes) \/ IsNaN(durationMinutes))
  /\ ~(durationMinutes.kind = "num" /\ durationMinutes.v <= 0)

\* A bug the checks of lines 77-80 could have: Number.isNaN is not asked.
AcceptedWithoutNaNCheck(durationMinutes) == TypeofNumber(durationMinutes)

\* The checks of lines 77-80 let durationMinutes through.
Accepted(durationMinutes) ==
  ~(~TypeofNumber(durationMinutes) \/ IsNaN(durationMinutes))

\* Lines 77-96 of scheduleStreamTermination, once the engine check passed:
\* the registry and timers after the call at time t.  The old timeout is
\* cleared before the new one is made.  full: the call needs a timeout and
\* every handle of the model is taken.
Arm(reg, ts, id, durationMinutes, t) ==
  IF ~Accepted(durationMinutes)
  THEN [reg |-> reg, timers |-> ts, full |-> FALSE]
  ELSE LET cleared == IF Has(reg, id)
                      THEN Collect([reg EXCEPT ![id] = 0],
                                   ClearTimeout(ts, reg[id]))
                      ELSE ts
           clampedMinutes == MathMax0(durationMinutes)
           durationMs == TimesMinute(clampedMinutes)
           timeoutId == CHOOSE h \in FreeHandles(cleared) :
                          \A g \in FreeHandles(cleared) : h <= g
       IN IF FreeHandles(cleared) = {}
          THEN [reg |-> reg, timers |-> ts, full |-> TRUE]
          ELSE [reg |-> [reg EXCEPT ![id] = timeoutId],
                timers |-> [cleared EXCEPT ![timeoutId] =
                              [id |-> id,
                               due |-> t + SetTimeoutDelay(durationMs),
                               st |-> "pending"]],
                full |-> FALSE]

\* A bug cancelStreamTermination could have: true is returned in either case.
CancelAlwaysTrue(reg, ts, id) ==
  IF Has(reg, id)
  THEN LET deleted == [reg EXCEPT ![id] = 0]
       IN [reg |-> deleted,
           timers |-> Collect(deleted, ClearTimeout(ts, reg[id])),
           ret |-> TRUE]
  ELSE [reg |-> reg, timers |-> ts, ret |-> TRUE]

\* cancelStreamTermination: the registry, the timers and the value returned.
Cancel(reg, ts, id) ==
  IF Has(reg, id)
  THEN LET deleted == [reg EXCEPT ![id] = 0]
       IN [reg |-> deleted,
           timers |-> Collect(deleted, ClearTimeout(ts, reg[id])),
           ret |-> TRUE]
  ELSE [reg |-> reg, timers |-> ts, ret |-> FALSE]

\* Lines 90-94 of the timeout's callback, once the awaited stop has settled:
\* the entry of the stream is deleted unless the stop threw.
Fired(reg, ts, h, outcome) ==
  LET deleted == IF outcome = "throw" THEN reg
                 ELSE [reg EXCEPT ![ts[h].id] = 0]
  IN [reg |-> deleted,
      timers |-> Collect(deleted, [ts EXCEPT ![h].st = "done"])]

\* The row of an offline stream.  The scheduler reads a row only through the
\* two queries, which return scheduled and live streams: the columns of an
\* offline row are never seen and are not kept.
OfflineRow ==
  [status |-> "offline", start_time |-> NoTime, scheduled_time |-> NoTime,
   duration |-> Null]

\* The engine's stop, as the repository shows it: a successful stop takes
\* the stream offline; a failure result or a thrown error leaves it.
EngineStop(rp, id, outcome) ==
  IF outcome = "ok"
  THEN [rp EXCEPT ![id] = OfflineRow]
  ELSE rp

\* The engine's start, as the repository shows it: a successful start makes
\* the stream live and records its start_time.
EngineStart(rp, id, outcome, t) ==
  IF outcome = "ok"
  THEN [rp EXCEPT ![id] = [status |-> "live", start_time |-> t,
                           scheduled_time |-> NoTime,
                           duration |-> rp[id].duration]]
  ELSE rp

\* --------------------------------------------------------- repository
\* The orders in which a query may return the streams of S.
Orders(S) ==
  {q \in [1..Cardinality(S) -> S] : \A i, j \in 1..Cardinality(S) :
                                      q[i] = q[j] => i = j}

\* The row of stream id, as a query returns it.
Row(rp, id) ==
  [id |-> id, duration |-> rp[id].duration, start_time |-> rp[id].start_time]

\* Stream.findAll(null, 'live'): the live streams.
FindAllLive(rp) == {id \in Streams : rp[id].status = "live"}

\* Stream.findScheduledInRange(from, to): the scheduled streams whose
\* scheduled_time lies in [from, to].
FindScheduledInRange(rp, from, to) ==
  {id \in Streams : /\ rp[id].status = "scheduled"
                    /\ rp[id].scheduled_time # NoTime
                    /\ from <= rp[id].scheduled_time
                    /\ rp[id].scheduled_time <= to}

\* ---------------------------------------------------------- watchdog
IdleWd ==
  [pc |-> "idle", rest |-> <<>>, cur |-> NoStream, seen |-> <<>>, t0 |-> 0,
   err |-> "none", stopped |-> {}, armed |-> {}, tracked |-> {}]

\* new Date(startTime.getTime() + durationMs).  An invalid date is NaN.
ShouldEndAt(stream) ==
  LET durationMs == TimesMinute(stream.duration)
  IN IF durationMs.kind = "num" THEN Num(stream.start_time + durationMs.v)
     ELSE NaN

\* shouldEndAt <= now; a comparison with NaN is false.
NotAfter(shouldEndAt, t) == shouldEndAt.kind = "num" /\ shouldEndAt.v <= t

\* (shouldEndAt.getTime() - now.getTime()) / 60000
TimeUntilEnd(shouldEndAt, t) ==
  IF shouldEndAt.kind = "num" THEN Num(shouldEndAt.v - t) ELSE NaN

\* A bug the condition of line 54 could have: the registry is not consulted.
EligibleIgnoringRegistry(stream, reg) ==
  Truthy(stream.duration) /\ stream.start_time # NoTime

\* A bug the condition of line 54 could have: the duration is not required.
EligibleWithoutDuration(stream, reg) ==
  stream.start_time # NoTime /\ ~Has(reg, stream.id)

\* The condition of line 54: the stream has a duration and a start_time and no
\* entry in the registry.
Eligible(stream, reg) ==
  /\ Truthy(stream.duration)
  /\ stream.start_time # NoTime
  /\ ~Has(reg, stream.id)

\* The for loop of checkStreamDurations (lines 53-67), run at time t from
\* the streams still to visit (w.rest) up to its next await or its end.
RECURSIVE WdLoop(_, _, _, _, _)
WdLoop(w, reg, ts, t, full) ==
  IF w.rest = <<>>
  THEN [w |-> [w EXCEPT !.pc = "done", !.cur = NoStream],
        reg |-> reg, timers |-> ts, full |-> full]
  ELSE
    LET stream == Head(w.rest)
        w1 == [w EXCEPT !.rest = Tail(w.rest)]
    IN IF Eligible(stream, reg)
       THEN LET shouldEndAt == ShouldEndAt(stream)
            IN IF NotAfter(shouldEndAt, t)
               THEN [w |-> [w1 EXCEPT !.pc = "stop", !.cur = stream.id,
                                      !.stopped = @ \cup {stream.id}],
                     reg |-> reg, timers |-> ts, full |-> full]
               ELSE LET d == TimeUntilEnd(shouldEndAt, t)
                        a == Arm(reg, ts, stream.id, d, t)
                    IN WdLoop([w1 EXCEPT !.armed =
                                 IF Accepted(d) /\ ~a.full
                                 THEN @ \cup {[id |-> stream.id, delay |-> d]}
                                 ELSE @],
                              a.reg, a.timers, t, full \/ a.full)
       ELSE WdLoop([w1 EXCEPT !.tracked =
                      IF Has(reg, stream.id) THEN @ \cup {stream.id} ELSE @],
                   reg, ts, t, full)

\* The entry of checkStreamDurations (lines 46-52): it returns at once without
\* an engine, and otherwise awaits Stream.findAll.
WdEnter(w) ==
  IF streamingService = NoEngine THEN w ELSE [IdleWd EXCEPT !.pc = "query"]

\* ------------------------------------------------------------ poller
IdlePl ==
  [pc |-> "idle", rest |-> <<>>, cur |-> NoStream, seen |-> <<>>, from |-> 0,
   err |-> "none", started |-> <<>>]

\* A bug line 28 could have: the horizon is left out.
LookAheadTimeWithoutHorizon(t) == t

\* lookAheadTime (line 28): now + SCHEDULE_LOOKAHEAD_SECONDS.
LookAheadTime(t) == t + LookaheadMinutes

\* The entry of checkScheduledStreams (lines 21-29): now is read before the
\* query is awaited.
PlEnter(p, t) ==
  IF streamingService = NoEngine THEN p ELSE [IdlePl EXCEPT !.pc = "query", !.from = t]

\* The for loop of checkScheduledStreams (lines 32-40) up to its next await.
PlLoop(p) ==
  IF p.rest = <<>>
  THEN [p EXCEPT !.pc = "done", !.cur = NoStream]
  ELSE [p EXCEPT !.pc = "start", !.cur = Head(p.rest), !.rest = Tail(p.rest),
                 !.started = Append(@, Head(p.rest))]

\* The locals of an invocation that has returned are gone: its record is kept
\* for the one state that follows its last step, then dropped.
SettleWd(w) == [k \in DOMAIN w |-> IF w[k].pc = "done" THEN IdleWd ELSE w[k]]
SettlePl(p) == [k \in DOMAIN p |-> IF p[k].pc = "done" THEN IdlePl ELSE p[k]]

\* ------------------------------------------------------------- Init
Init ==
  /\ now = 0
  /\ streamingService = NoEngine
  /\ initialized = FALSE
  /\ scheduleIntervalId = 0
  /\ durationIntervalId = 0
  /\ repo = [id \in Streams |-> OfflineRow]
  /\ scheduledTerminations = [id \in Streams |-> 0]
  /\ timers = [h \in Handles |-> Free]
  /\ wd = [k \in WdSlots |-> IdleWd]
  /\ pl = [k \in PlSlots |-> IdlePl]
  /\ last = NoCall

\* ---------------------------------------------------------- actions
\* A bug init could have: the guard of line 9 is missing.
InitCallUnguarded(engine) ==
  /\ last' = [NoCall EXCEPT !.op = "init", !.id = engine, !.ret = ~initialized]
  /\ streamingService' = engine
  /\ initialized' = TRUE
  /\ scheduleIntervalId' = scheduleIntervalId + 1
  /\ durationIntervalId' = durationIntervalId + 1
  /\ pl' = [SettlePl(pl) EXCEPT !["pl1"] = [IdlePl EXCEPT !.pc = "query",
                                            !.from = now]]
  /\ wd' = [SettleWd(wd) EXCEPT !["wd1"] = [IdleWd EXCEPT !.pc = "query"]]
  /\ UNCHANGED <<now, repo, scheduledTerminations, timers>>

\* A bug init could have: the calls of lines 18-19 are missing, so that the
\* first tick of each function waits for its interval.
InitCallWithoutTicks(engine) ==
  /\ last' = [NoCall EXCEPT !.op = "init", !.id = engine, !.ret = ~initialized]
  /\ IF initialized
     THEN UNCHANGED <<streamingService, initialized,
                      scheduleIntervalId, durationIntervalId>>
     ELSE /\ streamingService' = engine
          /\ initialized' = TRUE
          /\ scheduleIntervalId' = scheduleIntervalId + 1
          /\ durationIntervalId' = durationIntervalId + 1
  /\ wd' = SettleWd(wd)
  /\ pl' = SettlePl(pl)
  /\ UNCHANGED <<now, repo, scheduledTerminations, timers>>

\* init(streamingServiceInstance), lines 8-20.  The call record holds the
\* engine handed over and whether the call went past line 12.  The two calls
\* of lines 18-19 run to their awaited queries, or, when init was handed no
\* engine, return at lines 23-26 and 48-51.
InitCall(engine) ==
  /\ last' = [NoCall EXCEPT !.op = "init", !.id = engine, !.ret = ~initialized]
  /\ IF initialized
     THEN /\ UNCHANGED <<streamingService, initialized,
                         scheduleIntervalId, durationIntervalId>>
          /\ wd' = SettleWd(wd)
          /\ pl' = SettlePl(pl)
     ELSE /\ streamingService' = engine
          /\ initialized' = TRUE
          /\ scheduleIntervalId' = scheduleIntervalId + 1
          /\ durationIntervalId' = durationIntervalId + 1
          /\ pl' = [SettlePl(pl) EXCEPT !["pl1"] =
                      IF engine = NoEngine THEN @
                      ELSE [IdlePl EXCEPT !.pc = "query", !.from = now]]
          /\ wd' = [SettleWd(wd) EXCEPT !["wd1"] =
                      IF engine = NoEngine THEN @
                      ELSE [IdleWd EXCEPT !.pc = "query"]]
  /\ UNCHANGED <<now, repo, scheduledTerminations, timers>>

\* A bug scheduleStreamTermination could have: the check of lines 73-76 is
\* missing.
ScheduleStreamTerminationWithoutEngine(id, d) ==
  /\ last' = [op |-> "arm", id |-> id, arg |-> d, ret |-> FALSE]
  /\ LET a == Arm(scheduledTerminations, timers, id, d, now)
     IN /\ ~a.full
        /\ scheduledTerminations' = a.reg
        /\ timers' = a.timers
  /\ wd' = SettleWd(wd)
  /\ pl' = SettlePl(pl)
  /\ UNCHANGED <<now, streamingService, initialized, scheduleIntervalId,
                 durationIntervalId, repo>>

\* scheduleStreamTermination(streamId, durationMinutes), lines 72-97.
ScheduleStreamTermination(id, d) ==
  /\ last' = [op |-> "arm", id |-> id, arg |-> d, ret |-> FALSE]
  /\ IF streamingService = NoEngine
     THEN UNCHANGED <<scheduledTerminations, timers>>
     ELSE LET a == Arm(scheduledTerminations, timers, id, d, now)
          IN /\ ~a.full
             /\ scheduledTerminations' = a.reg
             /\ timers' = a.timers
  /\ wd' = SettleWd(wd)
  /\ pl' = SettlePl(pl)
  /\ UNCHANGED <<now, streamingService, initialized, scheduleIntervalId,
                 durationIntervalId, repo>>

\* cancelStreamTermination(streamId), lines 98-106.
CancelStreamTermination(id) ==
  LET c == Cancel(scheduledTerminations, timers, id)
  IN /\ scheduledTerminations' = c.reg
     /\ timers' = c.timers
     /\ last' = [op |-> "cancel", id |-> id, arg |-> Null, ret |-> c.ret]
     /\ wd' = SettleWd(wd)
     /\ pl' = SettlePl(pl)
     /\ UNCHANGED <<now, streamingService, initialized, scheduleIntervalId,
                    durationIntervalId, repo>>

\* handleStreamStopped(streamId), lines 107-109.
HandleStreamStopped(id) ==
  LET c == Cancel(scheduledTerminations, timers, id)
  IN /\ scheduledTerminations' = c.reg
     /\ timers' = c.timers
     /\ last' = [op |-> "cancel", id |-> id, arg |-> Null, ret |-> c.ret]
     /\ wd' = SettleWd(wd)
     /\ pl' = SettlePl(pl)
     /\ UNCHANGED <<now, streamingService, initialized, scheduleIntervalId,
                    durationIntervalId, repo>>

\* A timeout comes due and its callback runs up to its await (lines 87-90):
\* the engine's stop is invoked for the timer's stream.
FireBegin(h) ==
  /\ timers[h].st = "pending"
  /\ timers[h].due <= now
  /\ timers' = [timers EXCEPT ![h].st = "firing"]
  /\ last' = NoCall
  /\ wd' = SettleWd(wd)
  /\ pl' = SettlePl(pl)
  /\ UNCHANGED <<now, streamingService, initialized, scheduleIntervalId,
                 durationIntervalId, repo, scheduledTerminations>>

\* The awaited stop of a fired timeout settles (lines 90-94): the entry of
\* the stream is deleted unless the stop threw.
FireEnd(h, outcome) ==
  /\ timers[h].st = "firing"
  /\ LET f == Fired(scheduledTerminations, timers, h, outcome)
     IN /\ scheduledTerminations' = f.reg
        /\ timers' = f.timers
  /\ repo' = EngineStop(repo, timers[h].id, outcome)
  /\ last' = NoCall
  /\ wd' = SettleWd(wd)
  /\ pl' = SettlePl(pl)
  /\ UNCHANGED <<now, streamingService, initialized, scheduleIntervalId,
                 durationIntervalId>>

\* The interval of line 17 comes due: checkStreamDurations starts.
WdTick(k) ==
  /\ durationIntervalId > 0
  /\ wd[k].pc \in {"idle", "done"}
  /\ wd' = [SettleWd(wd) EXCEPT ![k] = WdEnter(wd[k])]
  /\ last' = NoCall
  /\ pl' = SettlePl(pl)
  /\ UNCHANGED <<now, streamingService, initialized, scheduleIntervalId,
                 durationIntervalId, repo, scheduledTerminations, timers>>

\* A bug checkStreamDurations could have: a failed query is swallowed and the
\* loop runs all the same.
WdQueryDoneSwallowingFailure(k, failed, order) ==
  /\ wd[k].pc = "query"
  /\ last' = NoCall
  /\ LET liveStreams == [i \in DOMAIN order |-> Row(repo, order[i])]
         r == WdLoop([wd[k] EXCEPT !.rest = liveStreams,
                                   !.seen = liveStreams, !.t0 = now],
                     scheduledTerminations, timers, now, FALSE)
     IN /\ ~r.full
        /\ wd' = [SettleWd(wd) EXCEPT ![k] = r.w]
        /\ scheduledTerminations' = r.reg
        /\ timers' = r.timers
  /\ pl' = SettlePl(pl)
  /\ UNCHANGED <<now, streamingService, initialized, scheduleIntervalId,
                 durationIntervalId, repo>>

\* Stream.findAll settles (line 52): it throws, or returns the live streams in
\* some order and the loop runs to its first await.
WdQueryDone(k, failed, order) ==
  /\ wd[k].pc = "query"
  /\ last' = NoCall
  /\ IF failed
     THEN /\ wd' = [SettleWd(wd) EXCEPT ![k].pc = "done", ![k].err = "query"]
          /\ UNCHANGED <<scheduledTerminations, timers>>
     ELSE LET liveStreams == [i \in DOMAIN order |-> Row(repo, order[i])]
              r == WdLoop([wd[k] EXCEPT !.rest = liveStreams,
                                        !.seen = liveStreams, !.t0 = now],
                          scheduledTerminations, timers, now, FALSE)
          IN /\ ~r.full
             /\ wd' = [SettleWd(wd) EXCEPT ![k] = r.w]
             /\ scheduledTerminations' = r.reg
             /\ timers' = r.timers
  /\ pl' = SettlePl(pl)
  /\ UNCHANGED <<now, streamingService, initialized, scheduleIntervalId,
                 durationIntervalId, repo>>

\* A bug checkStreamDurations could have: no catch, so that a thrown stop is an
\* unhandled rejection that ends the process and, with it, both intervals.
WdStopDoneFatal(k, outcome) ==
  /\ wd[k].pc = "stop"
  /\ last' = NoCall
  /\ repo' = EngineStop(repo, wd[k].cur, outcome)
  /\ IF outcome = "throw"
     THEN /\ wd' = [SettleWd(wd) EXCEPT ![k].pc = "done", ![k].err = "stop",
                              ![k].cur = NoStream]
          /\ scheduleIntervalId' = 0
          /\ durationIntervalId' = 0
          /\ UNCHANGED <<scheduledTerminations, timers>>
     ELSE LET r == WdLoop(wd[k], scheduledTerminations, timers, now, FALSE)
          IN /\ ~r.full
             /\ wd' = [SettleWd(wd) EXCEPT ![k] = r.w]
             /\ scheduledTerminations' = r.reg
             /\ timers' = r.timers
             /\ UNCHANGED <<scheduleIntervalId, durationIntervalId>>
  /\ pl' = SettlePl(pl)
  /\ UNCHANGED <<now, streamingService, initialized>>

\* The awaited stop of line 61 settles: a thrown error ends the tick in the
\* catch of line 68, anything else resumes the loop.
WdStopDone(k, outcome) ==
  /\ wd[k].pc = "stop"
  /\ last' = NoCall
  /\ repo' = EngineStop(repo, wd[k].cur, outcome)
  /\ IF outcome = "throw"
     THEN /\ wd' = [SettleWd(wd) EXCEPT ![k].pc = "done", ![k].err = "stop",
                              ![k].cur = NoStream]
          /\ UNCHANGED <<scheduledTerminations, timers>>
     ELSE LET r == WdLoop(wd[k], scheduledTerminations, timers, now, FALSE)
          IN /\ ~r.full
             /\ wd' = [SettleWd(wd) EXCEPT ![k] = r.w]
             /\ scheduledTerminations' = r.reg
             /\ timers' = r.timers
  /\ pl' = SettlePl(pl)
  /\ UNCHANGED <<now, streamingService, initialized, scheduleIntervalId,
                 durationIntervalId>>

\* The interval of line 16 comes due: checkScheduledStreams starts.
PlTick(k) ==
  /\ scheduleIntervalId > 0
  /\ pl[k].pc \in {"idle", "done"}
  /\ pl' = [SettlePl(pl) EXCEPT ![k] = PlEnter(pl[k], now)]
  /\ last' = NoCall
  /\ wd' = SettleWd(wd)
  /\ UNCHANGED <<now, streamingService, initialized, scheduleIntervalId,
                 durationIntervalId, repo, scheduledTerminations, timers>>

\* Stream.findScheduledInRange settles (line 29): it throws, or returns the
\* due streams in some order and the first start is invoked.
PlQueryDone(k, failed, order) ==
  /\ pl[k].pc = "query"
  /\ last' = NoCall
  /\ pl' = IF failed
           THEN [SettlePl(pl) EXCEPT ![k].pc = "done", ![k].err = "query"]
           ELSE [SettlePl(pl) EXCEPT ![k] = PlLoop([pl[k] EXCEPT !.rest = order,
                                                        !.seen = order])]
  /\ wd' = SettleWd(wd)
  /\ UNCHANGED <<now, streamingService, initialized, scheduleIntervalId,
                 durationIntervalId, repo, scheduledTerminations, timers>>

\* A bug checkScheduledStreams could have: a successful start arms the
\* termination of the stream there and then.
PlStartDoneArming(k, outcome) ==
  /\ pl[k].pc = "start"
  /\ last' = NoCall
  /\ repo' = EngineStart(repo, pl[k].cur, outcome, now)
  /\ pl' = IF outcome = "throw"
           THEN [SettlePl(pl) EXCEPT ![k].pc = "done", ![k].err = "start",
                           ![k].cur = NoStream]
           ELSE [SettlePl(pl) EXCEPT ![k] = PlLoop(pl[k])]
  /\ wd' = SettleWd(wd)
  /\ LET a == Arm(scheduledTerminations, timers, pl[k].cur,
                  repo[pl[k].cur].duration, now)
     IN IF outcome = "ok" /\ ~a.full
        THEN scheduledTerminations' = a.reg /\ timers' = a.timers
        ELSE UNCHANGED <<scheduledTerminations, timers>>
  /\ UNCHANGED <<now, streamingService, initialized, scheduleIntervalId,
                 durationIntervalId>>

\* The awaited start of line 34 settles: a thrown error ends the tick in the
\* catch of line 42, a result (success or not) goes on to the next stream.
PlStartDone(k, outcome) ==
  /\ pl[k].pc = "start"
  /\ last' = NoCall
  /\ repo' = EngineStart(repo, pl[k].cur, outcome, now)
  /\ pl' = IF outcome = "throw"
           THEN [SettlePl(pl) EXCEPT ![k].pc = "done", ![k].err = "start",
                           ![k].cur = NoStream]
           ELSE [SettlePl(pl) EXCEPT ![k] = PlLoop(pl[k])]
  /\ wd' = SettleWd(wd)
  /\ UNCHANGED <<now, streamingService, initialized, scheduleIntervalId,
                 durationIntervalId, scheduledTerminations, timers>>

\* ------------------------------------------------------- environment
\* Time passes.
Advance ==
  /\ now < MaxTime
  /\ now' = now + 1
  /\ last' = NoCall
  /\ wd' = SettleWd(wd)
  /\ pl' = SettlePl(pl)
  /\ UNCHANGED <<streamingService, initialized, scheduleIntervalId,
                 durationIntervalId, repo, scheduledTerminations, timers>>

\* Another part of the application schedules an offline stream, with the
\* duration it has configured for it.
EnvSchedule(id, t, d) ==
  /\ repo[id].status = "offline"
  /\ repo' = [repo EXCEPT ![id] = [status |-> "scheduled", start_time |-> NoTime,
                                   scheduled_time |-> t, duration |-> d]]
  /\ last' = NoCall
  /\ wd' = SettleWd(wd)
  /\ pl' = SettlePl(pl)
  /\ UNCHANGED <<now, streamingService, initialized, scheduleIntervalId,
                 durationIntervalId, scheduledTerminations, timers>>

\* Another part of the application starts an offline stream (a manual start)
\* with the duration it has configured; the row may lack a start_time.
EnvGoLive(id, t, d) ==
  /\ repo[id].status = "offline"
  /\ repo' = [repo EXCEPT ![id] = [status |-> "live", start_time |-> t,
                                   scheduled_time |-> NoTime, duration |-> d]]
  /\ last' = NoCall
  /\ wd' = SettleWd(wd)
  /\ pl' = SettlePl(pl)
  /\ UNCHANGED <<now, streamingService, initialized, scheduleIntervalId,
                 durationIntervalId, scheduledTerminations, timers>>

\* Another part of the application stops a live stream (a manual stop).
EnvStop(id) ==
  /\ repo[id].status = "live"
  /\ repo' = [repo EXCEPT ![id] = OfflineRow]
  /\ last' = NoCall
  /\ wd' = SettleWd(wd)
  /\ pl' = SettlePl(pl)
  /\ UNCHANGED <<now, streamingService, initialized, scheduleIntervalId,
                 durationIntervalId, scheduledTerminations, timers>>

\* Another part of the application stops a live stream and, as section 2 asks
\* of every stop made outside the scheduler, calls handleStreamStopped for it
\* (lines 107-109) in the same turn of the event loop.
StopFromOutside(id) ==
  LET c == Cancel(scheduledTerminations, timers, id)
  IN /\ repo[id].status = "live"
     /\ repo' = [repo EXCEPT ![id] = OfflineRow]
     /\ scheduledTerminations' = c.reg
     /\ timers' = c.timers
     /\ last' = [op |-> "cancel", id |-> id, arg |-> Null, ret |-> c.ret]
     /\ wd' = SettleWd(wd)
     /\ pl' = SettlePl(pl)
     /\ UNCHANGED <<now, streamingService, initialized, scheduleIntervalId,
                    durationIntervalId>>

\* The registry and its timers, driven through the module's exports.
NextReg ==
  \/ ~initialized /\ InitCall(FirstEngine)
  \/ \E id \in Streams, d \in DelayInputs : ScheduleStreamTermination(id, d)
  \/ \E id \in Streams : CancelStreamTermination(id)
  \/ \E id \in Streams : HandleStreamStopped(id)
  \/ \E h \in Handles : FireBegin(h)
  \/ \E h \in Handles, o \in Outcomes : FireEnd(h, o)
  \/ Advance

\* The watchdog, the timers it arms and the streams it watches.  The calls
\* that change nothing (a second init, a cancel without an entry) are left to
\* NextReg.
NextWd ==
  \/ ~initialized /\ InitCall(FirstEngine)
  \/ \E id \in Streams :
       Has(scheduledTerminations, id) /\ HandleStreamStopped(id)
  \/ \E h \in Handles : FireBegin(h)
  \/ \E h \in Handles, o \in Outcomes : FireEnd(h, o)
  \/ \E k \in WdSlots : WdTick(k)
  \/ \E k \in WdSlots, failed \in BOOLEAN, order \in Orders(FindAllLive(repo)) :
       WdQueryDone(k, failed, order)
  \/ \E k \in WdSlots, o \in Outcomes : WdStopDone(k, o)
  \/ Advance
  \/ \E id \in Streams, r \in LiveRows(now) : EnvGoLive(id, r[1], r[2])
  \/ \E id \in Streams : EnvStop(id)

\* The poller and the streams it starts.
NextPl ==
  \/ ~initialized /\ InitCall(FirstEngine)
  \/ \E k \in PlSlots : PlTick(k)
  \/ \E k \in PlSlots, failed \in BOOLEAN :
       \E order \in Orders(FindScheduledInRange(repo, pl[k].from,
                                                LookAheadTime(pl[k].from))) :
         PlQueryDone(k, failed, order)
  \/ \E k \in PlSlots, o \in Outcomes : PlStartDone(k, o)
  \/ Advance
  \/ \E id \in Streams, t \in now..(now + LookaheadMinutes + 1),
         d \in Durations :
       EnvSchedule(id, t, d)
  \/ \E id \in Streams : EnvStop(id)

\* The scheduler as a whole, left to itself: a stream is scheduled, started by
\* the poller, watched by the watchdog and stopped by the watchdog or by its
\* timer.  Stops from outside are left to NextWd.
NextAll ==
  \/ \E e \in Engines : (initialized \/ e = FirstEngine) /\ InitCall(e)
  \/ \E h \in Handles : FireBegin(h)
  \/ \E h \in Handles, o \in Outcomes : FireEnd(h, o)
  \/ \E k \in PlSlots : PlTick(k)
  \/ \E k \in PlSlots, failed \in BOOLEAN :
       \E order \in Orders(FindScheduledInRange(repo, pl[k].from,
                                                LookAheadTime(pl[k].from))) :
         PlQueryDone(k, failed, order)
  \/ \E k \in PlSlots, o \in Outcomes : PlStartDone(k, o)
  \/ \E k \in WdSlots : WdTick(k)
  \/ \E k \in WdSlots, failed \in BOOLEAN, order \in Orders(FindAllLive(repo)) :
       WdQueryDone(k, failed, order)
  \/ \E k \in WdSlots, o \in Outcomes : WdStopDone(k, o)
  \/ Advance
  \/ \E id \in Streams, d \in Durations : EnvSchedule(id, now, d)

\* The scheduler as a whole next to an application that keeps to its side:
\* it schedules streams and stops live ones, telling the scheduler of each
\* stop.
NextExt ==
  \/ ~initialized /\ InitCall(FirstEngine)
  \/ \E h \in Handles : FireBegin(h)
  \/ \E h \in Handles, o \in Outcomes : FireEnd(h, o)
  \/ \E k \in PlSlots : PlTick(k)
  \/ \E k \in PlSlots, failed \in BOOLEAN :
       \E order \in Orders(FindScheduledInRange(repo, pl[k].from,
                                                LookAheadTime(pl[k].from))) :
         PlQueryDone(k, failed, order)
  \/ \E k \in PlSlots, o \in Outcomes : PlStartDone(k, o)
  \/ \E k \in WdSlots : WdTick(k)
  \/ \E k \in WdSlots, failed \in BOOLEAN, order \in Orders(FindAllLive(repo)) :
       WdQueryDone(k, failed, order)
  \/ \E k \in WdSlots, o \in Outcomes : WdStopDone(k, o)
  \/ Advance
  \/ \E id \in Streams, d \in Durations : EnvSchedule(id, now, d)
  \/ \E id \in Streams : StopFromOutside(id)

\* The scheduler from the start of the process, with an application that
\* may call init late, again, or with no engine, and that asks for
\* terminations before an engine is stored.  Arming with an engine stored is
\* left to NextReg.
NextBoot ==
  \/ \E e \in EngineInputs : InitCall(e)
  \/ \E id \in Streams, d \in DelayInputs :
       streamingService = NoEngine /\ ScheduleStreamTermination(id, d)
  \/ \E h \in Handles : FireBegin(h)
  \/ \E h \in Handles, o \in Outcomes : FireEnd(h, o)
  \/ \E k \in PlSlots : PlTick(k)
  \/ \E k \in PlSlots, failed \in BOOLEAN :
       \E order \in Orders(FindScheduledInRange(repo, pl[k].from,
                                                LookAheadTime(pl[k].from))) :
         PlQueryDone(k, failed, order)
  \/ \E k \in PlSlots, o \in Outcomes : PlStartDone(k, o)
  \/ \E k \in WdSlots : WdTick(k)
  \/ \E k \in WdSlots, failed \in BOOLEAN, order \in Orders(FindAllLive(repo)) :
       WdQueryDone(k, failed, order)
  \/ \E k \in WdSlots, o \in Outcomes : WdStopDone(k, o)
  \/ Advance
  \/ \E id \in Streams, d \in Durations : EnvSchedule(id, now, d)
  \/ \E id \in Streams, r \in LiveRows(now) : EnvGoLive(id, r[1], r[2])

Spec == Init /\ [][NextWd]_vars
SpecReg == Init /\ [][NextReg]_vars
SpecPl == Init /\ [][NextPl]_vars
SpecAll == Init /\ [][NextAll]_vars
SpecExt == Init /\ [][NextExt]_vars
SpecBoot == Init /\ [][NextBoot]_vars

\* The scheduler as a whole under the scheduling of the event loop: an interval
\* that is due fires (lines 16-17), and every awaited query, start or stop
\* settles, one way or the other.
FairAll ==
  /\ WF_vars(\E k \in PlSlots : PlTick(k))
  /\ WF_vars(\E k \in WdSlots : WdTick(k))
  /\ WF_vars(\E k \in PlSlots, failed \in BOOLEAN :
               \E order \in Orders(FindScheduledInRange(repo, pl[k].from,
                                       LookAheadTime(pl[k].from))) :
                 PlQueryDone(k, failed, order))
  /\ WF_vars(\E k \in PlSlots, o \in Outcomes : PlStartDone(k, o))
  /\ WF_vars(\E k \in WdSlots, order \in Orders(FindAllLive(repo)) :
               WdQueryDone(k, TRUE, order) \/ WdQueryDone(k, FALSE, order))
  /\ WF_vars(\E k \in WdSlots, o \in Outcomes : WdStopDone(k, o))
SpecAllFair == Init /\ [][NextAll]_vars /\ FairAll

\* The same, with the timers of the event loop: a timeout that is due fires
\* (line 87) and its awaited stop settles (line 90).
FairFiring ==
  /\ FairAll
  /\ WF_vars(\E h \in Handles : FireBegin(h))
  /\ WF_vars(\E h \in Handles, o \in Outcomes : FireEnd(h, o))
SpecAllFairFiring == Init /\ [][NextAll]_vars /\ FairFiring

\* ============================================================ claims
\* A step of cancelStreamTermination(id), called directly or through its
\* alias handleStreamStopped(id).
CancelStep(id) == CancelStreamTermination(id) \/ HandleStreamStopped(id)

\* A number that is neither NaN nor infinite.
Finite(d) == d.kind = "num"

\* C1: in every reachable state each stream id has at most one pending
\* termination: one timer that is armed, has not fired and is not cancelled.
C1_AtMostOnePending ==
  \A id \in Streams : Cardinality(Pending(timers, id)) <= 1

\* C2: arming id again with a valid delay while its termination is armed and
\* has not fired leaves exactly one pending termination for id, the new one,
\* due after the second call's clamped delay.
C2_RearmLeavesOne ==
  [][\A id \in Streams, d \in DelayInputs :
       (/\ ScheduleStreamTermination(id, d)
        /\ streamingService # NoEngine
        /\ Finite(d)
        /\ Has(scheduledTerminations, id)
        /\ timers[scheduledTerminations[id]].st = "pending")
       => /\ Has(scheduledTerminations', id)
          /\ Pending(timers', id) = {scheduledTerminations'[id]}
          /\ timers'[scheduledTerminations'[id]].due
               = now + (IF d.v < 0 THEN 0 ELSE d.v)]_vars

\* C3: a cancel of id made while a termination of id is armed and has not
\* fired returns true, removes the entry, and leaves no armed termination of
\* id behind that could still invoke the engine's stop.
C3_CancelSuppresses ==
  [][\A id \in Streams :
       (CancelStep(id) /\ Pending(timers, id) # {})
       => /\ last'.ret = TRUE
          /\ ~Has(scheduledTerminations', id)
          /\ Pending(timers', id) = {}]_vars

\* C4: a cancel of an id that has no entry returns false and changes nothing:
\* not the registry, not a timer, not the repository, not a tick in flight.
C4_CancelAbsentNoop ==
  [][\A id \in Streams :
       (~Has(scheduledTerminations, id) /\ CancelStep(id))
       => /\ last'.ret = FALSE
          /\ UNCHANGED <<now, streamingService, initialized,
                         scheduleIntervalId, durationIntervalId, repo,
                         scheduledTerminations, timers, wd, pl>>]_vars

\* C4 happens: a cancel has just returned false while the other stream's
\* termination is pending.
C4_Witness ==
  /\ last.op = "cancel"
  /\ last.ret = FALSE
  /\ \E other \in Streams \ {last.id} :
       /\ Has(scheduledTerminations, other)
       /\ timers[scheduledTerminations[other]].st = "pending"

\* C5: once the callback of a fired timer has returned, whatever the stop's
\* outcome, the registry does not hold that timer.
C5_FiredEntryRemoved ==
  \A id \in Streams :
    Has(scheduledTerminations, id)
      => timers[scheduledTerminations[id]].st # "done"

\* C10: scheduleStreamTermination with a delay that is not a finite number
\* changes neither the registry nor any timer.
C10_NonFiniteRejected ==
  [][\A id \in Streams, d \in DelayInputs :
       (ScheduleStreamTermination(id, d) /\ ~Finite(d))
       => UNCHANGED <<scheduledTerminations, timers>>]_vars

\* The streams a tick has armed so far.
ArmedIds(w) == {a.id : a \in w.armed}

\* The rows a tick's query returned.
Seen(w) == {w.seen[i] : i \in DOMAIN w.seen}

\* A step of the invocation of checkStreamDurations in slot k.
WdStep(k) ==
  \/ WdTick(k)
  \/ \E failed \in BOOLEAN, order \in Orders(FindAllLive(repo)) :
       WdQueryDone(k, failed, order)
  \/ \E o \in Outcomes : WdStopDone(k, o)

\* C6: when a watchdog tick ends, every row of its result that has a duration
\* and a start_time and was overdue when the query returned has had its stop
\* call in the tick and was not armed.  (Rows the tick skipped for their
\* registry entry, as section 4.3 has it, are not counted.)
C6_OverdueStopped ==
  \A k \in WdSlots :
    wd[k].pc = "done" =>
      \A row \in Seen(wd[k]) :
        (/\ Truthy(row.duration)
         /\ row.start_time # NoTime
         /\ NotAfter(ShouldEndAt(row), wd[k].t0)
         /\ row.id \notin wd[k].tracked)
        => /\ row.id \in wd[k].stopped
           /\ row.id \notin ArmedIds(wd[k])

\* C7: when a watchdog tick ends, every row of its result that has a duration
\* and a start_time, no registry entry, and an expiry still ahead has been
\* armed in the tick with the delay expiry - now of the moment it was armed,
\* and has had no stop call.
C7_FutureArmed ==
  \A k \in WdSlots :
    wd[k].pc = "done" =>
      \A row \in Seen(wd[k]) :
        (/\ Truthy(row.duration)
         /\ row.start_time # NoTime
         /\ ShouldEndAt(row).kind = "num"
         /\ ShouldEndAt(row).v > now
         /\ row.id \notin wd[k].tracked)
        => /\ \E t \in wd[k].t0..now :
                [id |-> row.id, delay |-> Num(ShouldEndAt(row).v - t)]
                  \in wd[k].armed
           /\ row.id \notin wd[k].stopped

\* C8: no watchdog tick arms or stops a live stream that has no duration.
C8_NoDurationUntouched ==
  \A k \in WdSlots :
    \A row \in Seen(wd[k]) :
      row.duration = Null
        => row.id \notin wd[k].stopped /\ row.id \notin ArmedIds(wd[k])

\* C8 happens: a tick has ended that saw a stream without a duration next to
\* one that it armed or stopped.
C8_Witness ==
  \E k \in WdSlots :
    /\ wd[k].pc = "done"
    /\ \E row \in Seen(wd[k]) : row.duration = Null /\ row.start_time # NoTime
    /\ wd[k].stopped \cup ArmedIds(wd[k]) # {}

\* C9: a step of a watchdog tick leaves every registry entry that exists as it
\* is, with its timer, and neither stops nor arms the stream of the entry.
C9_TrackedUntouched ==
  [][\A k \in WdSlots, id \in Streams :
       (WdStep(k) /\ Has(scheduledTerminations, id))
       => /\ scheduledTerminations'[id] = scheduledTerminations[id]
          /\ timers'[scheduledTerminations[id]]
               = timers[scheduledTerminations[id]]
          /\ id \notin wd'[k].stopped \ wd[k].stopped
          /\ id \notin ArmedIds(wd'[k]) \ ArmedIds(wd[k])]_vars

\* C9 happens: a tick has ended that skipped a stream for its entry, and the
\* entry's timer is still pending.
C9_Witness ==
  \E k \in WdSlots, id \in Streams :
    /\ wd[k].pc = "done"
    /\ id \in wd[k].tracked
    /\ Has(scheduledTerminations, id)
    /\ timers[scheduledTerminations[id]].st = "pending"

\* C11: once init has stored the engine, scheduleStreamTermination(id, d) with
\* a number d <= 0 is not rejected: afterwards the registry holds an entry for
\* id whose timer is pending with a zero delay (due now) and whose callback
\* stops id.
C11_NonPositiveArmsNow ==
  [][\A id \in Streams, d \in DelayInputs :
       (/\ streamingService # NoEngine
        /\ Finite(d)
        /\ d.v <= 0
        /\ ScheduleStreamTermination(id, d))
       => /\ Has(scheduledTerminations', id)
          /\ timers'[scheduledTerminations'[id]]
               = [id |-> id, due |-> now, st |-> "pending"]]_vars

\* C11 happens: a call with a negative delay has just returned and the
\* stream's timer is pending and due.
C11_Witness ==
  /\ last.op = "arm"
  /\ last.arg = Num(-1)
  /\ Has(scheduledTerminations, last.id)
  /\ timers[scheduledTerminations[last.id]].st = "pending"
  /\ timers[scheduledTerminations[last.id]].due <= now

\* A step of the invocation of checkScheduledStreams in slot k.
PlStep(k) ==
  \/ PlTick(k)
  \/ \E failed \in BOOLEAN :
       \E order \in Orders(FindScheduledInRange(repo, pl[k].from,
                                                LookAheadTime(pl[k].from))) :
         PlQueryDone(k, failed, order)
  \/ \E o \in Outcomes : PlStartDone(k, o)

\* s is an initial part of t.
IsPrefix(s, t) == Len(s) <= Len(t) /\ \A i \in 1..Len(s) : s[i] = t[i]

\* C12: in a poller tick whose query returned, the start calls made so far are
\* an initial part of the returned list, one call per stream in the returned
\* order, at most one of them in flight; when the tick ends every returned
\* stream has had its call.
C12_EachStartedOnce ==
  \A k \in PlSlots :
    (pl[k].pc \in {"start", "done"} /\ pl[k].err # "query")
      => /\ IsPrefix(pl[k].started, pl[k].seen)
         /\ pl[k].pc = "start" => /\ pl[k].started # <<>>
                                  /\ pl[k].cur = pl[k].started[Len(pl[k].started)]
         /\ pl[k].pc = "done" => pl[k].started = pl[k].seen

\* C13: when a start call of a poller tick fails (a failure result or a thrown
\* error) and streams remain in the returned list, the tick goes on: the next
\* stream of the list gets its start call, and the failed one gets no second.
C13_StartFailureContinues ==
  [][\A k \in PlSlots, o \in Outcomes \ {"ok"} :
       (PlStartDone(k, o) /\ pl[k].rest # <<>>)
       => /\ pl'[k].pc = "start"
          /\ pl'[k].cur = Head(pl[k].rest)
          /\ pl'[k].started = Append(pl[k].started, Head(pl[k].rest))
          /\ pl'[k].cur # pl[k].cur]_vars

\* C14: when a stop call of a watchdog tick fails (a failure result or a thrown
\* error), the tick goes on through the rest of the returned list: it runs to
\* the stop call of the next overdue stream or to the end of the list.
C14_StopFailureContinues ==
  [][\A k \in WdSlots, o \in Outcomes \ {"ok"} :
       WdStopDone(k, o)
       => \/ wd'[k].pc = "stop" /\ Len(wd'[k].rest) < Len(wd[k].rest)
          \/ wd'[k].pc = "done" /\ wd'[k].rest = <<>>]_vars

\* C15: a tick whose repository query fails ends there, with no engine call
\* made and the repository, the registry and the timers as they were; a tick
\* can start again at once, and every tick that starts is a new invocation
\* that carries nothing over from the ticks before it.
C15_QueryFailureEndsTick ==
  /\ [][\A k \in WdSlots :
          (\E order \in Orders(FindAllLive(repo)) : WdQueryDone(k, TRUE, order))
          => /\ wd'[k].pc = "done"
             /\ wd'[k].stopped = {} /\ wd'[k].armed = {}
             /\ UNCHANGED <<repo, scheduledTerminations, timers>>]_vars
  /\ [][\A k \in PlSlots :
          (\E order \in Orders(FindScheduledInRange(repo, pl[k].from,
                                   LookAheadTime(pl[k].from))) :
             PlQueryDone(k, TRUE, order))
          => /\ pl'[k].pc = "done"
             /\ pl'[k].started = <<>>
             /\ UNCHANGED <<repo, scheduledTerminations, timers>>]_vars
  /\ [][\A k \in WdSlots :
          WdTick(k) => wd'[k] = [IdleWd EXCEPT !.pc = "query"]]_vars
  /\ [][\A k \in PlSlots :
          PlTick(k) => pl'[k] = [IdlePl EXCEPT !.pc = "query", !.from = now]]_vars
  /\ [](\A k \in WdSlots : wd[k].err = "query" => ENABLED WdTick(k))
  /\ [](\A k \in PlSlots : pl[k].err = "query" => ENABLED PlTick(k))

\* C15 happens: a watchdog tick has just ended on a failed query while a live
\* stream with a duration waits to be armed or stopped and the other stream's
\* termination is pending.
C15_Witness ==
  \E k \in WdSlots, id \in Streams, other \in Streams :
    /\ wd[k].pc = "done" /\ wd[k].err = "query"
    /\ repo[id].status = "live" /\ Eligible(Row(repo, id), scheduledTerminations)
    /\ Has(scheduledTerminations, other)
    /\ timers[scheduledTerminations[other]].st = "pending"

\* C16: whatever the number of init calls, one interval of each tick function
\* exists once init has been called and the first engine stays stored; an init
\* call made after the first changes nothing but the call record: no interval
\* is made, no tick is started or moved, the stored engine is kept.
C16_InitOnce ==
  /\ [](/\ scheduleIntervalId = (IF initialized THEN 1 ELSE 0)
        /\ durationIntervalId = (IF initialized THEN 1 ELSE 0)
        /\ streamingService = (IF initialized THEN FirstEngine ELSE NoEngine))
  /\ [][\A e \in Engines :
          (InitCall(e) /\ initialized)
          => /\ UNCHANGED <<now, streamingService, initialized,
                            scheduleIntervalId, durationIntervalId, repo,
                            scheduledTerminations, timers>>
             /\ \A k \in WdSlots : wd'[k].pc = "query" => wd'[k] = wd[k]
             /\ \A k \in PlSlots : pl'[k].pc = "query" => pl'[k] = pl[k]]_vars

\* C16 happens: a later init call, handing over another engine, has just
\* returned at line 11 while no tick is in flight and a termination is pending.
C16_Witness ==
  /\ last.op = "init"
  /\ last.ret = FALSE
  /\ last.id # streamingService
  /\ \A k \in WdSlots : wd[k].pc = "idle"
  /\ \A k \in PlSlots : pl[k].pc = "idle"
  /\ \E id \in Streams :
       /\ Has(scheduledTerminations, id)
       /\ timers[scheduledTerminations[id]].st = "pending"

\* C17: unless init is never called, whatever fails (a query, a start or a
\* stop, by result or by throw, a rejected duration), a watchdog tick and a
\* poller tick start again and again: both loops tick for ever.
C17_LoopsKeepTicking ==
  \/ []~initialized
  \/ /\ []<><<\E k \in WdSlots : WdTick(k)>>_vars
     /\ []<><<\E k \in PlSlots : PlTick(k)>>_vars

\* C17 happens: a watchdog tick is in flight after the stop of a fired
\* termination has thrown (its entry is still in the registry), next to a
\* poller tick that has just ended in its catch.
C17_Witness ==
  /\ \E k \in WdSlots : wd[k].pc \in {"query", "stop"}
  /\ \E k \in PlSlots : pl[k].pc = "done" /\ pl[k].err # "none"
  /\ \E id \in Streams :
       /\ Has(scheduledTerminations, id)
       /\ timers[scheduledTerminations[id]].st = "done"

\* C18: a watchdog tick never skips a live stream that has a duration and a
\* start_time for the entry of a termination that has fired and whose callback
\* has returned: after the stop of a fired termination failed the stream is
\* evaluated again, to be stopped or armed.
C18_FailedStopReevaluated ==
  [][\A k \in WdSlots, id \in Streams :
       (/\ WdStep(k)
        /\ id \in wd'[k].tracked \ wd[k].tracked
        /\ \E row \in Seen(wd'[k]) : /\ row.id = id
                                      /\ Truthy(row.duration)
                                      /\ row.start_time # NoTime)
       => timers[scheduledTerminations[id]].st # "done"]_vars

\* Every list of distinct streams.
AllOrders == UNION {Orders(S) : S \in SUBSET Streams}

C20_PollerLeavesRegistry ==
  [][\A k \in PlSlots :
       PlStep(k) => UNCHANGED <<scheduledTerminations, timers>>]_vars

\* C20 happens: a poller tick that made a start call has ended while the
\* termination of a stream is pending.
C20_Witness ==
  \E k \in PlSlots, id \in Streams :
    /\ pl[k].pc = "done"
    /\ pl[k].started # <<>>
    /\ Has(scheduledTerminations, id)
    /\ timers[scheduledTerminations[id]].st = "pending"

\* C21: the first init call, handed an engine, makes the two intervals and in
\* the same step, with the clock where it was, starts one poller tick and one
\* watchdog tick: each has passed its engine check and awaits its query.
C21_InitDispatchesTicks ==
  [][\A e \in Engines :
       (~initialized /\ InitCall(e))
       => /\ now' = now
          /\ scheduleIntervalId' = 1
          /\ durationIntervalId' = 1
          /\ \E k \in PlSlots :
               pl'[k] = [IdlePl EXCEPT !.pc = "query", !.from = now]
          /\ \E k \in WdSlots : wd'[k] = [IdleWd EXCEPT !.pc = "query"]]_vars

\* C21 happens: the first init call has just returned, some time after the
\* process began, and both ticks await their queries.
C21_Witness ==
  /\ last.op = "init"
  /\ last.ret = TRUE
  /\ now > 0
  /\ \E k \in PlSlots : pl[k].pc = "query" /\ pl[k].from = now
  /\ \E k \in WdSlots : wd[k].pc = "query"

\* C22: a cancel of id made while the callback of id's timer is suspended in
\* its awaited stop returns true and removes the entry, and the callback goes
\* on: its stop call stays in flight and settles with its effect on the
\* stream.  When it has settled, and id was not armed again in between, the
\* registry has no entry for id, whatever the outcome of the stop.
C22_CancelDuringFiring ==
  [][/\ \A id \in Streams :
          (/\ Has(scheduledTerminations, id)
           /\ timers[scheduledTerminations[id]].st = "firing"
           /\ CancelStep(id))
          => /\ last'.ret = TRUE
             /\ ~Has(scheduledTerminations', id)
             /\ timers'[scheduledTerminations[id]]
                  = [id |-> id, due |-> timers[scheduledTerminations[id]].due,
                     st |-> "firing"]
     /\ \A h \in Handles :
          (timers[h].st = "firing" /\ ~Has(scheduledTerminations, timers[h].id))
          => \A o \in Outcomes :
               FireEnd(h, o)
               => /\ ~Has(scheduledTerminations', timers[h].id)
                  /\ repo' = EngineStop(repo, timers[h].id, o)]_vars

\* C22 happens: a cancel has just returned true for a stream whose timer's
\* callback is suspended in its stop call, and the entry is gone.
C22_Witness ==
  /\ last.op = "cancel"
  /\ last.ret = TRUE
  /\ ~Has(scheduledTerminations, last.id)
  /\ \E h \in Handles : timers[h].id = last.id /\ timers[h].st = "firing"

\* The duration of the row is set and is no number: its expiry is no instant.
InvalidDuration(row) ==
  Truthy(row.duration) /\ ShouldEndAt(row).kind # "num"

\* C23: a watchdog tick neither stops nor arms a live stream whose duration
\* is not a valid number, and no step of the tick touches the registry entry
\* of such a stream or makes a timer for it; when the tick has ended and the
\* stream, which the loop came to and found without an entry, is as the tick
\* saw it, the condition of line 54 holds for it again, so that the next tick
\* evaluates it.
C23_InvalidDurationLeftAlone ==
  /\ [](\A k \in WdSlots : \A row \in Seen(wd[k]) :
          InvalidDuration(row)
            => row.id \notin wd[k].stopped /\ row.id \notin ArmedIds(wd[k]))
  /\ [][\A k \in WdSlots : \A row \in Seen(wd'[k]) :
          (InvalidDuration(row) /\ WdStep(k))
          => /\ scheduledTerminations'[row.id] = scheduledTerminations[row.id]
             /\ \A h \in Handles :
                  timers'[h].id = row.id => timers'[h] = timers[h]]_vars
  /\ [](\A k \in WdSlots : \A row \in Seen(wd[k]) :
          (/\ wd[k].pc = "done"
           /\ InvalidDuration(row)
           /\ row.start_time # NoTime
           /\ \A i \in DOMAIN wd[k].rest : wd[k].rest[i] # row
           /\ row.id \notin wd[k].tracked
           /\ repo[row.id].status = "live"
           /\ Row(repo, row.id) = row)
          => Eligible(Row(repo, row.id), scheduledTerminations))

\* C23 happens: a tick has run to its end through a live stream whose
\* duration is no number and which had no entry, and has armed the other
\* stream.
C23_Witness ==
  \E k \in WdSlots : \E row \in Seen(wd[k]) :
    /\ wd[k].pc = "done"
    /\ wd[k].err = "none"
    /\ InvalidDuration(row)
    /\ row.start_time # NoTime
    /\ row.id \notin wd[k].tracked
    /\ repo[row.id].status = "live"
    /\ ArmedIds(wd[k]) # {}

\* A poller tick holds id in its list of streams still to start.
AboutToStart(id) ==
  \E k \in PlSlots :
    pl[k].pc = "start" /\ \E i \in DOMAIN pl[k].rest : pl[k].rest[i] = id

\* The registry holds a pending termination of id, or a watchdog tick holds a
\* row of id that is still to visit and that line 59 will find overdue.
AboutToStop(id) ==
  \/ /\ Has(scheduledTerminations, id)
     /\ timers[scheduledTerminations[id]].st = "pending"
  \/ \E k \in WdSlots :
       /\ wd[k].pc = "stop"
       /\ ~Has(scheduledTerminations, id)
       /\ \E i \in DOMAIN wd[k].rest :
            /\ wd[k].rest[i].id = id
            /\ Truthy(wd[k].rest[i].duration)
            /\ wd[k].rest[i].start_time # NoTime
            /\ NotAfter(ShouldEndAt(wd[k].rest[i]), now)

\* C24: whatever the interleaving of poller ticks, watchdog ticks, timer
\* firings and changes of status made outside, no stream is at once about to
\* be started and about to be stopped by the scheduler.
C24_NotStartingAndStopping ==
  \A id \in Streams : ~(AboutToStart(id) /\ AboutToStop(id))

\* Stream id is live with a duration and a start_time, and its expiry
\* (start_time + duration) has come.
Overdue(id) ==
  /\ repo[id].status = "live"
  /\ Truthy(repo[id].duration)
  /\ repo[id].start_time # NoTime
  /\ NotAfter(ShouldEndAt(Row(repo, id)), now)

\* A stop call of the scheduler for id is in flight: the callback of a fired
\* timer of id, or a watchdog tick, awaits stopStream(id).
StopInFlight(id) ==
  \/ \E h \in Handles : timers[h].id = id /\ timers[h].st = "firing"
  \/ \E k \in WdSlots : wd[k].pc = "stop" /\ wd[k].cur = id

\* The query of a watchdog tick has returned its list (line 52).
QueryReturned ==
  \E k \in WdSlots :
    \/ wd[k].pc = "stop"
    \/ wd[k].pc = "done" /\ wd[k].err # "query"

\* C25: after init, and unless the repository's query fails for ever, as long
\* as a stream is live with a duration and a start_time and its expiry has
\* come, a stop call for it is made by the scheduler sooner or later, and
\* again after every stop call for it that failed or threw and left it live.
C25_OverdueEventuallyStopped ==
  \A id \in Streams :
    \/ <>[]~QueryReturned
    \/ (initialized /\ Overdue(id)) ~> (StopInFlight(id) \/ ~Overdue(id))

\* A step in which the scheduler invokes stopStream(id): a timer of id fires
\* (line 90), or a watchdog tick comes to its stop call for id (line 61).
StopInvoked(id) ==
  \/ \E h \in Handles : timers[h].id = id /\ FireBegin(h)
  \/ \E k \in WdSlots :
       /\ WdStep(k)
       /\ wd'[k].pc = "stop"
       /\ wd'[k].cur = id

\* C26: with every stop from outside calling handleStreamStopped, the
\* scheduler never invokes the engine's stop for a stream that is live with a
\* duration and a start_time before the expiry (start_time + duration) of the
\* session it is in, also when the stream was stopped and started again while
\* a watchdog tick or the callback of a timer was suspended.
C26_NoPrematureStop ==
  [][\A id \in Streams :
       (/\ repo[id].status = "live"
        /\ Truthy(repo[id].duration)
        /\ repo[id].start_time # NoTime
        /\ ShouldEndAt(Row(repo, id)).kind = "num"
        /\ StopInvoked(id))
       => ShouldEndAt(Row(repo, id)).v <= now]_vars

\* C27: every entry of the registry is the timer of its stream, and that timer
\* is pending or its callback is suspended in its stop call: no entry is left
\* of a timer whose callback has returned, for line 54 to skip a live stream.
C27_EntriesAreActive ==
  \A id \in Streams :
    Has(scheduledTerminations, id)
      => /\ timers[scheduledTerminations[id]].id = id
         /\ timers[scheduledTerminations[id]].st \in {"pending", "firing"}

\* Everything but the record of the last call.
core == <<now, streamingService, initialized, scheduleIntervalId,
          durationIntervalId, repo, scheduledTerminations, timers, wd, pl>>

\* C28: the stored engine changes only in the first init call and never once
\* it is set; while it is unset the registry is empty, no timer exists and no
\* tick is past its engine check (no engine call can be in flight), and a call
\* of scheduleStreamTermination or a tick of either function changes nothing;
\* so every timer that exists has an engine to call.
C28_NothingWithoutEngine ==
  /\ [][streamingService' # streamingService
          => ~initialized /\ \E e \in EngineInputs : InitCall(e)]_vars
  /\ [][streamingService # NoEngine
          => streamingService' = streamingService]_vars
  /\ [](streamingService = NoEngine
          => /\ \A id \in Streams : ~Has(scheduledTerminations, id)
             /\ \A h \in Handles : timers[h] = Free
             /\ \A k \in WdSlots : wd[k] = IdleWd
             /\ \A k \in PlSlots : pl[k] = IdlePl)
  /\ [][\A id \in Streams, d \in DelayInputs :
          (streamingService = NoEngine /\ ScheduleStreamTermination(id, d))
          => UNCHANGED core]_vars
  /\ [][(/\ streamingService = NoEngine
          /\ \/ \E k \in WdSlots : WdTick(k)
             \/ \E k \in PlSlots : PlTick(k))
          => UNCHANGED core]_vars
  /\ [](\A h \in Handles :
          timers[h].st \in {"pending", "firing"}
            => streamingService # NoEngine)

\* C28 happens: init has been called without an engine, so that both
\* intervals tick; a stream is live and overdue, and a call of
\* scheduleStreamTermination with a valid delay has just returned.
C28_Witness ==
  /\ initialized
  /\ streamingService = NoEngine
  /\ scheduleIntervalId > 0
  /\ durationIntervalId > 0
  /\ \E id \in Streams : Overdue(id)
  /\ last.op = "arm"
  /\ last.arg = Num(1)
====
